---- MODULE Spec2Model ----
(***************************************************************************)
(* Model of the Roads proxy (src/src/main.rs): the startup of main, the    *)
(* request dispatcher, the CONNECT handler `proxy`, the detached task it   *)
(* spawns and `tunnel`, with the relay of tokio::io::copy_bidirectional    *)
(* unfolded into its steps.                                                *)
(***************************************************************************)
EXTENDS Integers, Sequences, FiniteSets, TLC

\* ---------------------------------------------------------------- bounds
MaxBytes == 2    \* bytes the peers write into all tunnels in one run

\* The exchanges of one run: two, so that two tunnels can be active at once.
Requests == {1, 2}
Dirs == {"from_client", "from_server"}

\* ------------------------------------------------------------ vocabulary
None == <<"none">>
Digits == {"8"}

\* The request targets the listener can hand to the service: no authority,
\* host only, host:port, host with a non-numeric port, port with no host.
Authorities ==
    { None, <<"h">>, <<"h", ":", "8">>, <<"h", ":", "x">>, <<":", "8">> }

InboundRequests ==
    [method : {"CONNECT"}, authority : Authorities, path : {""}]
    \cup [method : {"GET"}, authority : {None}, path : {"/ping", "/", "/x"}]
    \cup [method : {"POST"}, authority : {None}, path : {"/ping"}]

NoReq == [method |-> "-", authority |-> None, path |-> ""]
NoResp == [status |-> 0, body |-> ""]

\* Position of the last ':' of an authority string, 0 when there is none.
LastColon(a) ==
    LET idx == {i \in 1..Len(a) : a[i] = ":"}
    IN  IF idx = {} THEN 0 ELSE CHOOSE i \in idx : \A j \in idx : j <= i

\* A socket-style authority: a non-empty host, ':' and a numeric port.
IsSocketAddr(a) ==
    /\ a # None
    /\ LastColon(a) > 1
    /\ LastColon(a) < Len(a)
    /\ \A i \in (LastColon(a) + 1)..Len(a) : a[i] \in Digits

\* req.uri().authority().map(ToString::to_string): Some for every request
\* target that carries an authority component, whatever its shape.
HostAddr(req) == req.authority

\* What DATABASE_URL can be: not set, set to a store that does not answer,
\* set to one that does.
DatabaseUrls == {"absent", "unreachable", "reachable"}

\* A byte of an environment value that is no part of a valid Unicode string.
BadByte == "0xFF"

\* What PORT can be: not set, a port, not a number, a number above u16::MAX,
\* the empty string, bytes that are not Unicode.
PortEnvs ==
    { None, <<"8", "0">>, <<"x">>, <<"7", "0", "0", "0", "0">>, <<>>,
      <<BadByte>> }

DefaultPort == <<"3", "0", "0", "0">>
U16Max == 65535
DecDigits == <<"0", "1", "2", "3", "4", "5", "6", "7", "8", "9">>

IsDecDigit(c) == \E i \in 1..Len(DecDigits) : DecDigits[i] = c
DigitVal(c) == (CHOOSE i \in 1..Len(DecDigits) : DecDigits[i] = c) - 1

RECURSIVE DecValue(_)
DecValue(s) ==
    IF s = <<>> THEN 0
    ELSE 10 * DecValue(SubSeq(s, 1, Len(s) - 1)) + DigitVal(s[Len(s)])

\* str::parse::<u16>: Ok for a non-empty string of digits whose value fits.
ParsesAsU16(s) ==
    /\ s # <<>>
    /\ \A i \in 1..Len(s) : IsDecDigit(s[i])
    /\ DecValue(s) <= U16Max

\* std::env::var: Ok with the value, or Err (None here) when the variable is
\* not set or its value is not valid Unicode.
EnvVar(e) ==
    IF e # None /\ \A i \in 1..Len(e) : e[i] # BadByte THEN e ELSE None

\* env_port.unwrap_or_else(|_| "3000".into())
PortString(e) == IF EnvVar(e) = None THEN DefaultPort ELSE EnvVar(e)

LogEntry(level, msg, counts) == [level |-> level, msg |-> msg, counts |-> counts]

\* The n-th byte peer `d` of tunnel r writes: distinct per tunnel, side, place.
Byte(r, d, n) == <<r, d, n>>

VARIABLES
    mainpc,      \* position of main: "connect" | "add_route" | "parse_port" | "bind" | "serving" | "exited"
    database_url, \* the environment's DATABASE_URL: "absent" | "unreachable" | "reachable"
    env_port,    \* the environment's PORT: None or a string
    port,        \* the parsed port, 0 before it is parsed
    store,       \* the operations performed on the route store, in order
    listener,    \* "unbound", then "serving" while axum::Server::serve runs
    req,         \* req[r]: the request of exchange r, NoReq before it arrives
    resp,        \* resp[r]: what the service returned for r
    wire,        \* wire[r]: "none" | "pending" | "sent" | "failed" (the response on the connection)
    tpc,         \* tpc[r]: position of the spawned task
    host_addr,   \* host_addr[r]: the string moved into the task
    upgraded,    \* upgraded[r]: "none" | "open" | "closed"  (Upgraded)
    server,      \* server[r]:   "none" | "open" | "closed"  (TcpStream)
    result,      \* result[r]: outcome of the task
    log,         \* log[r]: tracing events caused by exchange r
    spawns,      \* spawns[r]: tokio::task::spawn calls
    upgrades,    \* upgrades[r]: hyper::upgrade::on calls
    dials,       \* dials[r]: TcpStream::connect calls
    written,     \* written[r][d]: bytes the peer of direction d has written
    inflight,    \* inflight[r][d]: written, not yet read by the relay
    buf,         \* buf[r][d]: read by the relay, not yet written out
    sink,        \* sink[r][d]: delivered to the other peer
    peerClosed,  \* peerClosed[r][d]: the writing peer closed its write side
    sinkEof,     \* sinkEof[r][d]: the receiving peer observes end-of-input
    dstate,      \* dstate[r][d]: "running" | "read_done" | "done"
    amt          \* amt[r][d]: bytes copied so far in direction d

vars == <<mainpc, database_url, env_port, port, store, listener, req, resp, wire, tpc, host_addr, upgraded, server, result,
          log, spawns, upgrades, dials, written, inflight, buf, sink,
          peerClosed, sinkEof, dstate, amt>>

mainVars == <<mainpc, database_url, env_port, port, store>>
httpVars == <<req, resp, wire>>
taskVars == <<tpc, host_addr, upgraded, server, result, spawns, upgrades, dials>>
relayVars == <<written, inflight, buf, sink, peerClosed, sinkEof, dstate, amt>>

RECURSIVE SumLen(_, _)
SumLen(w, S) ==
    IF S = {} THEN 0
    ELSE LET x == CHOOSE y \in S : TRUE
         IN  Len(w[x[1]][x[2]]) + SumLen(w, S \ {x})

\* Bytes written so far by all peers of all tunnels.
TotalWritten == SumLen(written, Requests \X Dirs)

Init ==
    /\ mainpc = "connect"
    /\ database_url \in DatabaseUrls
    /\ env_port \in PortEnvs
    /\ port = 0
    /\ store = <<>>
    /\ listener = "unbound"
    /\ req = [r \in Requests |-> NoReq]
    /\ resp = [r \in Requests |-> NoResp]
    /\ wire = [r \in Requests |-> "none"]
    /\ tpc = [r \in Requests |-> "none"]
    /\ host_addr = [r \in Requests |-> None]
    /\ upgraded = [r \in Requests |-> "none"]
    /\ server = [r \in Requests |-> "none"]
    /\ result = [r \in Requests |-> "none"]
    /\ log = [r \in Requests |-> <<>>]
    /\ spawns = [r \in Requests |-> 0]
    /\ upgrades = [r \in Requests |-> 0]
    /\ dials = [r \in Requests |-> 0]
    /\ written = [r \in Requests |-> [d \in Dirs |-> <<>>]]
    /\ inflight = [r \in Requests |-> [d \in Dirs |-> <<>>]]
    /\ buf = [r \in Requests |-> [d \in Dirs |-> <<>>]]
    /\ sink = [r \in Requests |-> [d \in Dirs |-> <<>>]]
    /\ peerClosed = [r \in Requests |-> [d \in Dirs |-> FALSE]]
    /\ sinkEof = [r \in Requests |-> [d \in Dirs |-> FALSE]]
    /\ dstate = [r \in Requests |-> [d \in Dirs |-> "running"]]
    /\ amt = [r \in Requests |-> [d \in Dirs |-> 0]]

\* ----------------------------------------------------------------- main
\* PgPool::connect(&env::var("DATABASE_URL")?).await?: either `?` returns
\* the error from main and the process ends.
ConnectPool ==
    /\ mainpc = "connect"
    /\ mainpc' = IF database_url = "reachable" THEN "add_route" ELSE "exited"
    /\ UNCHANGED <<database_url, env_port, port, store, listener>>
    /\ UNCHANGED httpVars
    /\ UNCHANGED <<taskVars, log>>
    /\ UNCHANGED relayVars

\* let _ = add_route(&pool, "/"): the future is built and dropped without
\* being awaited, so its INSERT never reaches the store.
AddRouteCall ==
    /\ mainpc = "add_route"
    /\ mainpc' = "parse_port"
    /\ UNCHANGED <<database_url, env_port, port, store, listener>>
    /\ UNCHANGED httpVars
    /\ UNCHANGED <<taskVars, log>>
    /\ UNCHANGED relayVars

\* env_port.unwrap_or_else(|_| "3000".into()).parse().unwrap(): the port,
\* or a panic that ends the process.
ParsePort ==
    /\ mainpc = "parse_port"
    /\ IF ParsesAsU16(PortString(env_port))
       THEN /\ port' = DecValue(PortString(env_port))
            /\ mainpc' = "bind"
       ELSE /\ port' = port
            /\ mainpc' = "exited"
    /\ UNCHANGED <<database_url, env_port, store, listener>>
    /\ UNCHANGED httpVars
    /\ UNCHANGED <<taskVars, log>>
    /\ UNCHANGED relayVars

\* axum::Server::bind(&addr).serve(..): the listener is bound and serves.
Serve ==
    /\ mainpc = "bind"
    /\ mainpc' = "serving"
    /\ listener' = "serving"
    /\ UNCHANGED <<database_url, env_port, port, store>>
    /\ UNCHANGED httpVars
    /\ UNCHANGED <<taskVars, log>>
    /\ UNCHANGED relayVars

\* axum::Server::bind panics: the address cannot be bound.
BindFail ==
    /\ mainpc = "bind"
    /\ mainpc' = "exited"
    /\ UNCHANGED <<database_url, env_port, port, store, listener>>
    /\ UNCHANGED httpVars
    /\ UNCHANGED <<taskVars, log>>
    /\ UNCHANGED relayVars

\* main, one step.
MainStep ==
    \/ ConnectPool
    \/ AddRouteCall
    \/ ParsePort
    \/ Serve
    \/ BindFail

\* --------------------------------------------------------------- router
\* The response redirect() builds, and the text it pairs with it.
RedirectBuilt ==
    [status |-> 308, body |-> "Redirecting to website...",
     location |-> "https://bento.me/devjunio"]

\* async fn redirect: the tuple expression ends in ';', the handler yields ().
Redirect == [status |-> 200, body |-> ""]

\* Router::new().route("/ping", get(..)).route("/", get(redirect))
RouterCall(q) ==
    IF q.path = "/ping"
    THEN IF q.method = "GET" THEN [status |-> 200, body |-> "Pong"]
                             ELSE [status |-> 405, body |-> ""]
    ELSE IF q.path = "/"
    THEN IF q.method = "GET" THEN Redirect
                             ELSE [status |-> 405, body |-> ""]
    ELSE [status |-> 404, body |-> ""]

\* ---------------------------------------------------------------- proxy
\* Whether proxy takes the branch that spawns the task.
ProxyAccepts(q) == HostAddr(q) # None

\* Mutant: the two branches of proxy answer with each other's response.
ProxyResponseSwapped(q) ==
    IF ProxyAccepts(q)
    THEN [status |-> 400, body |-> "CONNECT must be to a socket address"]
    ELSE [status |-> 200, body |-> ""]

\* Mutant: the refusal is returned as an error, not as a response.
ProxyResponseErr(q) ==
    IF ProxyAccepts(q)
    THEN [status |-> 200, body |-> ""]
    ELSE NoResp

\* The response proxy returns.
ProxyResponse(q) ==
    IF ProxyAccepts(q)
    THEN [status |-> 200, body |-> ""]
    ELSE [status |-> 400, body |-> "CONNECT must be to a socket address"]

\* Mutant: proxy awaits the task it spawned before it returns the response.
ProxyAwaitsTask(r, q) ==
    /\ IF ProxyAccepts(q)
       THEN /\ tpc' = [tpc EXCEPT ![r] = "spawned"]
            /\ host_addr' = [host_addr EXCEPT ![r] = HostAddr(q)]
            /\ spawns' = [spawns EXCEPT ![r] = @ + 1]
            /\ log' = [log EXCEPT ![r] = Append(@, LogEntry("trace", "req", <<>>))]
            /\ resp' = resp
       ELSE /\ log' = [log EXCEPT ![r] = @ \o
                        << LogEntry("trace", "req", <<>>),
                           LogEntry("warn", "CONNECT host is not socket addr", <<>>) >>]
            /\ resp' = [resp EXCEPT ![r] = ProxyResponse(q)]
            /\ UNCHANGED <<tpc, host_addr, spawns>>

\* proxy(req): trace the request; with an authority spawn the task and
\* return the empty success response, otherwise warn and return 400.
Proxy(r, q) ==
    /\ resp' = [resp EXCEPT ![r] = ProxyResponse(q)]
    /\ IF ProxyAccepts(q)
       THEN /\ tpc' = [tpc EXCEPT ![r] = "spawned"]
            /\ host_addr' = [host_addr EXCEPT ![r] = HostAddr(q)]
            /\ spawns' = [spawns EXCEPT ![r] = @ + 1]
            /\ log' = [log EXCEPT ![r] = Append(@, LogEntry("trace", "req", <<>>))]
       ELSE /\ log' = [log EXCEPT ![r] = @ \o
                        << LogEntry("trace", "req", <<>>),
                           LogEntry("warn", "CONNECT host is not socket addr", <<>>) >>]
            /\ UNCHANGED <<tpc, host_addr, spawns>>

\* Mutant: the method test is inverted.
DispatchInverted(r) ==
    /\ listener = "serving"
    /\ req[r] = NoReq
    /\ \A p \in Requests : p < r => req[p] # NoReq
    /\ \E q \in InboundRequests :
        /\ req' = [req EXCEPT ![r] = q]
        /\ wire' = [wire EXCEPT ![r] = "pending"]
        /\ IF q.method # "CONNECT"
           THEN Proxy(r, q)
           ELSE /\ resp' = [resp EXCEPT ![r] = RouterCall(q)]
                /\ UNCHANGED <<tpc, host_addr, spawns, log>>
    /\ UNCHANGED <<listener, mainVars, upgraded, server, result, upgrades, dials>>
    /\ UNCHANGED relayVars

\* The service_fn closure: CONNECT goes to proxy, the rest to the router.
Dispatch(r) ==
    /\ listener = "serving"
    /\ req[r] = NoReq
    /\ \A p \in Requests : p < r => req[p] # NoReq
    /\ \E q \in InboundRequests :
        /\ req' = [req EXCEPT ![r] = q]
        /\ wire' = [wire EXCEPT ![r] = "pending"]
        /\ IF q.method = "CONNECT"
           THEN Proxy(r, q)
           ELSE /\ resp' = [resp EXCEPT ![r] = RouterCall(q)]
                /\ UNCHANGED <<tpc, host_addr, spawns, log>>
    /\ UNCHANGED <<listener, mainVars, upgraded, server, result, upgrades, dials>>
    /\ UNCHANGED relayVars

\* ------------------------------------------------------------ connection
\* The server writes the returned response to the client.
SendResponse(r) ==
    /\ wire[r] = "pending"
    /\ wire' = [wire EXCEPT ![r] = "sent"]
    /\ UNCHANGED <<listener, mainVars, req, resp, log>>
    /\ UNCHANGED taskVars
    /\ UNCHANGED relayVars

\* The connection breaks before the response is written.
ConnFail(r) ==
    /\ wire[r] = "pending"
    /\ wire' = [wire EXCEPT ![r] = "failed"]
    /\ UNCHANGED <<listener, mainVars, req, resp, log>>
    /\ UNCHANGED taskVars
    /\ UNCHANGED relayVars

\* ------------------------------------------------------- the spawned task
\* Mutant: the task dials the destination without awaiting the upgrade.
TaskStartDialsFirst(r) ==
    /\ tpc[r] = "spawned"
    /\ tpc' = [tpc EXCEPT ![r] = "dial"]
    /\ UNCHANGED <<listener, mainVars, log, host_addr, upgraded, server, result, spawns, upgrades, dials>>
    /\ UNCHANGED httpVars
    /\ UNCHANGED relayVars

\* The task is polled for the first time and calls hyper::upgrade::on(req).
TaskStart(r) ==
    /\ tpc[r] = "spawned"
    /\ tpc' = [tpc EXCEPT ![r] = "awaiting_upgrade"]
    /\ upgrades' = [upgrades EXCEPT ![r] = @ + 1]
    /\ UNCHANGED <<listener, mainVars, log, host_addr, upgraded, server, result, spawns, dials>>
    /\ UNCHANGED httpVars
    /\ UNCHANGED relayVars

\* upgrade::on resolves Ok once the success response is on the wire.
UpgradeOk(r) ==
    /\ tpc[r] = "awaiting_upgrade"
    /\ wire[r] = "sent"
    /\ tpc' = [tpc EXCEPT ![r] = "dial"]
    /\ upgraded' = [upgraded EXCEPT ![r] = "open"]
    /\ UNCHANGED <<listener, mainVars, log, host_addr, server, result, spawns, upgrades, dials>>
    /\ UNCHANGED httpVars
    /\ UNCHANGED relayVars

\* Mutant: the Err arm warns and then goes on to tunnel all the same.
UpgradeErrDialsAnyway(r) ==
    /\ tpc[r] = "awaiting_upgrade"
    /\ wire[r] = "failed"
    /\ tpc' = [tpc EXCEPT ![r] = "dial"]
    /\ log' = [log EXCEPT ![r] = Append(@, LogEntry("warn", "upgrade error", <<>>))]
    /\ UNCHANGED <<listener, mainVars, host_addr, upgraded, server, result, spawns, upgrades, dials>>
    /\ UNCHANGED httpVars
    /\ UNCHANGED relayVars

\* upgrade::on resolves Err: warn "upgrade error", the task ends.
UpgradeErr(r) ==
    /\ tpc[r] = "awaiting_upgrade"
    /\ wire[r] = "failed"
    /\ tpc' = [tpc EXCEPT ![r] = "done"]
    /\ result' = [result EXCEPT ![r] = "upgrade_err"]
    /\ log' = [log EXCEPT ![r] = Append(@, LogEntry("warn", "upgrade error", <<>>))]
    /\ UNCHANGED <<listener, mainVars, host_addr, upgraded, server, spawns, upgrades, dials>>
    /\ UNCHANGED httpVars
    /\ UNCHANGED relayVars

\* --------------------------------------------------------------- tunnel
\* TcpStream::connect(addr) succeeds: only a host:port string resolves.
DialOk(r) ==
    /\ tpc[r] = "dial"
    /\ IsSocketAddr(host_addr[r])
    /\ tpc' = [tpc EXCEPT ![r] = "relaying"]
    /\ server' = [server EXCEPT ![r] = "open"]
    /\ dials' = [dials EXCEPT ![r] = @ + 1]
    /\ UNCHANGED <<listener, mainVars, log, host_addr, upgraded, result, spawns, upgrades>>
    /\ UNCHANGED httpVars
    /\ UNCHANGED relayVars

\* Mutant: the dial error is unwrapped outside the task and takes the
\* server down with it.
DialErrStopsServer(r) ==
    /\ tpc[r] = "dial"
    /\ tpc' = [tpc EXCEPT ![r] = "done"]
    /\ dials' = [dials EXCEPT ![r] = @ + 1]
    /\ upgraded' = [upgraded EXCEPT ![r] = "closed"]
    /\ result' = [result EXCEPT ![r] = "dial_err"]
    /\ listener' = "stopped"
    /\ UNCHANGED mainVars
    /\ log' = [log EXCEPT ![r] = Append(@, LogEntry("warn", "server io error", <<>>))]
    /\ UNCHANGED <<host_addr, server, spawns, upgrades>>
    /\ UNCHANGED httpVars
    /\ UNCHANGED relayVars

\* Mutant: the task ends on a dial error but keeps the upgraded stream open.
DialErrLeaksUpgraded(r) ==
    /\ tpc[r] = "dial"
    /\ tpc' = [tpc EXCEPT ![r] = "done"]
    /\ dials' = [dials EXCEPT ![r] = @ + 1]
    /\ result' = [result EXCEPT ![r] = "dial_err"]
    /\ log' = [log EXCEPT ![r] = Append(@, LogEntry("warn", "server io error", <<>>))]
    /\ UNCHANGED <<listener, mainVars, host_addr, upgraded, server, spawns, upgrades>>
    /\ UNCHANGED httpVars
    /\ UNCHANGED relayVars

\* Mutant: a failed dial is tried once more before the task gives up.
DialErrRetries(r) ==
    /\ tpc[r] = "dial"
    /\ dials' = [dials EXCEPT ![r] = @ + 1]
    /\ IF dials[r] = 0
       THEN UNCHANGED <<tpc, upgraded, result, log>>
       ELSE /\ tpc' = [tpc EXCEPT ![r] = "done"]
            /\ upgraded' = [upgraded EXCEPT ![r] = "closed"]
            /\ result' = [result EXCEPT ![r] = "dial_err"]
            /\ log' = [log EXCEPT ![r] = Append(@, LogEntry("warn", "server io error", <<>>))]
    /\ UNCHANGED <<listener, mainVars, host_addr, server, spawns, upgrades>>
    /\ UNCHANGED httpVars
    /\ UNCHANGED relayVars

\* TcpStream::connect(addr) fails: `?` returns the error, `upgraded` is
\* dropped, the task warns "server io error" and ends.
DialErr(r) ==
    /\ tpc[r] = "dial"
    /\ tpc' = [tpc EXCEPT ![r] = "done"]
    /\ dials' = [dials EXCEPT ![r] = @ + 1]
    /\ upgraded' = [upgraded EXCEPT ![r] = "closed"]
    /\ result' = [result EXCEPT ![r] = "dial_err"]
    /\ log' = [log EXCEPT ![r] = Append(@, LogEntry("warn", "server io error", <<>>))]
    /\ UNCHANGED <<listener, mainVars, host_addr, server, spawns, upgrades>>
    /\ UNCHANGED httpVars
    /\ UNCHANGED relayVars

\* ------------------------------------------------------------ the peers
\* The peer may write tunneled bytes: the client once it has seen the
\* success response, the destination once it was dialed; neither after the
\* task has dropped the streams.
PeerConnected(r, d) ==
    IF d = "from_client"
    THEN wire[r] = "sent" /\ tpc[r] \in {"spawned", "awaiting_upgrade", "dial", "relaying"}
    ELSE tpc[r] = "relaying"

\* A peer writes its next byte.
PeerWrite(r, d) ==
    /\ PeerConnected(r, d)
    /\ ~peerClosed[r][d]
    /\ TotalWritten < MaxBytes
    /\ LET b == Byte(r, d, Len(written[r][d]) + 1)
       IN  /\ written' = [written EXCEPT ![r][d] = Append(@, b)]
           /\ inflight' = [inflight EXCEPT ![r][d] = Append(@, b)]
    /\ UNCHANGED <<listener, mainVars, log, buf, sink, peerClosed, sinkEof, dstate, amt>>
    /\ UNCHANGED httpVars
    /\ UNCHANGED taskVars

\* A peer closes its write side.
PeerClose(r, d) ==
    /\ PeerConnected(r, d)
    /\ ~peerClosed[r][d]
    /\ peerClosed' = [peerClosed EXCEPT ![r][d] = TRUE]
    /\ UNCHANGED <<listener, mainVars, log, written, inflight, buf, sink, sinkEof, dstate, amt>>
    /\ UNCHANGED httpVars
    /\ UNCHANGED taskVars

\* ------------------------------------------- copy_bidirectional, one step
\* Direction d reads k bytes that are waiting on its source.
CopyRead(r, d) ==
    /\ tpc[r] = "relaying"
    /\ dstate[r][d] = "running"
    /\ inflight[r][d] # <<>>
    /\ \E k \in 1..Len(inflight[r][d]) :
        /\ buf' = [buf EXCEPT ![r][d] = @ \o SubSeq(inflight[r][d], 1, k)]
        /\ inflight' = [inflight EXCEPT ![r][d] = SubSeq(@, k + 1, Len(@))]
    /\ UNCHANGED <<listener, mainVars, log, written, sink, peerClosed, sinkEof, dstate, amt>>
    /\ UNCHANGED httpVars
    /\ UNCHANGED taskVars

\* Direction d reads 0 bytes: its source is at end-of-stream.
CopyReadEof(r, d) ==
    /\ tpc[r] = "relaying"
    /\ dstate[r][d] = "running"
    /\ inflight[r][d] = <<>>
    /\ peerClosed[r][d]
    /\ dstate' = [dstate EXCEPT ![r][d] = "read_done"]
    /\ UNCHANGED <<listener, mainVars, log, written, inflight, buf, sink, peerClosed, sinkEof, amt>>
    /\ UNCHANGED httpVars
    /\ UNCHANGED taskVars

\* Mutant: the write does not advance the buffer, so bytes are sent again.
CopyWriteNoAdvance(r, d) ==
    /\ tpc[r] = "relaying"
    /\ dstate[r][d] \in {"running", "read_done"}
    /\ buf[r][d] # <<>>
    /\ Len(sink[r][d]) < MaxBytes + 1
    /\ \E k \in 1..Len(buf[r][d]) :
        /\ sink' = [sink EXCEPT ![r][d] = @ \o SubSeq(buf[r][d], 1, k)]
        /\ amt' = [amt EXCEPT ![r][d] = @ + k]
    /\ UNCHANGED <<listener, mainVars, log, written, inflight, buf, peerClosed, sinkEof, dstate>>
    /\ UNCHANGED httpVars
    /\ UNCHANGED taskVars

\* Mutant: all tunnels write to the destination stream of the first one.
CopyWriteShared(r, d) ==
    /\ tpc[r] = "relaying"
    /\ dstate[r][d] \in {"running", "read_done"}
    /\ buf[r][d] # <<>>
    /\ \E k \in 1..Len(buf[r][d]) :
        /\ sink' = [sink EXCEPT ![1][d] = @ \o SubSeq(buf[r][d], 1, k)]
        /\ buf' = [buf EXCEPT ![r][d] = SubSeq(@, k + 1, Len(@))]
        /\ amt' = [amt EXCEPT ![r][d] = @ + k]
    /\ UNCHANGED <<listener, mainVars, log, written, inflight, peerClosed, sinkEof, dstate>>
    /\ UNCHANGED httpVars
    /\ UNCHANGED taskVars

\* Direction d writes k buffered bytes to its sink and counts them.
CopyWrite(r, d) ==
    /\ tpc[r] = "relaying"
    /\ dstate[r][d] \in {"running", "read_done"}
    /\ buf[r][d] # <<>>
    /\ \E k \in 1..Len(buf[r][d]) :
        /\ sink' = [sink EXCEPT ![r][d] = @ \o SubSeq(buf[r][d], 1, k)]
        /\ buf' = [buf EXCEPT ![r][d] = SubSeq(@, k + 1, Len(@))]
        /\ amt' = [amt EXCEPT ![r][d] = @ + k]
    /\ UNCHANGED <<listener, mainVars, log, written, inflight, peerClosed, sinkEof, dstate>>
    /\ UNCHANGED httpVars
    /\ UNCHANGED taskVars

\* Mutant: the sink is shut down as soon as end-of-stream was read, with
\* bytes still in the buffer.
CopyShutdownUnflushed(r, d) ==
    /\ tpc[r] = "relaying"
    /\ dstate[r][d] = "read_done"
    /\ dstate' = [dstate EXCEPT ![r][d] = "done"]
    /\ sinkEof' = [sinkEof EXCEPT ![r][d] = TRUE]
    /\ UNCHANGED <<listener, mainVars, log, written, inflight, buf, sink, peerClosed, amt>>
    /\ UNCHANGED httpVars
    /\ UNCHANGED taskVars

\* Direction d has read end-of-stream and emptied its buffer: it flushes
\* and shuts down the write side of its sink, whose peer then sees EOF.
CopyShutdown(r, d) ==
    /\ tpc[r] = "relaying"
    /\ dstate[r][d] = "read_done"
    /\ buf[r][d] = <<>>
    /\ dstate' = [dstate EXCEPT ![r][d] = "done"]
    /\ sinkEof' = [sinkEof EXCEPT ![r][d] = TRUE]
    /\ UNCHANGED <<listener, mainVars, log, written, inflight, buf, sink, peerClosed, amt>>
    /\ UNCHANGED httpVars
    /\ UNCHANGED taskVars

\* Mutant: the error only ends direction d; the other direction goes on.
CopyErrOneDirection(r, d) ==
    /\ tpc[r] = "relaying"
    /\ dstate[r][d] # "done"
    /\ result[r] = "none"
    /\ dstate' = [dstate EXCEPT ![r][d] = "done"]
    /\ result' = [result EXCEPT ![r] = "io_err"]
    /\ log' = [log EXCEPT ![r] = Append(@, LogEntry("warn", "server io error", <<>>))]
    /\ UNCHANGED <<listener, mainVars, tpc, host_addr, upgraded, server, spawns, upgrades, dials>>
    /\ UNCHANGED <<written, inflight, buf, sink, peerClosed, sinkEof, amt>>
    /\ UNCHANGED httpVars

\* Mutant: the error path logs the counts copy_bidirectional had reached.
CopyErrLogsCounts(r, d) ==
    /\ tpc[r] = "relaying"
    /\ dstate[r][d] # "done"
    /\ tpc' = [tpc EXCEPT ![r] = "done"]
    /\ result' = [result EXCEPT ![r] = "io_err"]
    /\ upgraded' = [upgraded EXCEPT ![r] = "closed"]
    /\ server' = [server EXCEPT ![r] = "closed"]
    /\ log' = [log EXCEPT ![r] = Append(@,
                 LogEntry("warn", "server io error",
                          <<amt[r]["from_client"], amt[r]["from_server"]>>))]
    /\ UNCHANGED <<listener, mainVars, host_addr, spawns, upgrades, dials>>
    /\ UNCHANGED httpVars
    /\ UNCHANGED relayVars

\* A read or a write of direction d fails: copy_bidirectional returns the
\* error, `?` returns it from tunnel, both streams are dropped and the task
\* warns "server io error".
CopyErr(r, d) ==
    /\ tpc[r] = "relaying"
    /\ dstate[r][d] # "done"
    /\ tpc' = [tpc EXCEPT ![r] = "done"]
    /\ result' = [result EXCEPT ![r] = "io_err"]
    /\ upgraded' = [upgraded EXCEPT ![r] = "closed"]
    /\ server' = [server EXCEPT ![r] = "closed"]
    /\ log' = [log EXCEPT ![r] = Append(@, LogEntry("warn", "server io error", <<>>))]
    /\ UNCHANGED <<listener, mainVars, host_addr, spawns, upgrades, dials>>
    /\ UNCHANGED httpVars
    /\ UNCHANGED relayVars

\* Mutant: a deadline ends the tunnel although a direction is still running.
TunnelOkOnDeadline(r) ==
    /\ tpc[r] = "relaying"
    /\ tpc' = [tpc EXCEPT ![r] = "done"]
    /\ result' = [result EXCEPT ![r] = "ok"]
    /\ upgraded' = [upgraded EXCEPT ![r] = "closed"]
    /\ server' = [server EXCEPT ![r] = "closed"]
    /\ log' = [log EXCEPT ![r] = Append(@,
                 LogEntry("debug", "client wrote and received",
                          <<amt[r]["from_client"], amt[r]["from_server"]>>))]
    /\ UNCHANGED <<listener, mainVars, host_addr, spawns, upgrades, dials>>
    /\ UNCHANGED httpVars
    /\ UNCHANGED relayVars

\* Both directions are done: copy_bidirectional returns the two counts,
\* tunnel logs them at debug level and returns Ok, the streams are dropped.
TunnelOk(r) ==
    /\ tpc[r] = "relaying"
    /\ \A d \in Dirs : dstate[r][d] = "done"
    /\ tpc' = [tpc EXCEPT ![r] = "done"]
    /\ result' = [result EXCEPT ![r] = "ok"]
    /\ upgraded' = [upgraded EXCEPT ![r] = "closed"]
    /\ server' = [server EXCEPT ![r] = "closed"]
    /\ log' = [log EXCEPT ![r] = Append(@,
                 LogEntry("debug", "client wrote and received",
                          <<amt[r]["from_client"], amt[r]["from_server"]>>))]
    /\ UNCHANGED <<listener, mainVars, host_addr, spawns, upgrades, dials>>
    /\ UNCHANGED httpVars
    /\ UNCHANGED relayVars

\* ----------------------------------------------------------- the system
\* What the spawned task does outside the relay.
TaskStep(r) ==
    \/ TaskStart(r)
    \/ UpgradeOk(r)
    \/ UpgradeErr(r)
    \/ DialOk(r)
    \/ DialErr(r)
    \/ TunnelOk(r)

\* What one direction of copy_bidirectional does when it is polled.
CopyStep(r, d) ==
    \/ CopyRead(r, d)
    \/ CopyReadEof(r, d)
    \/ CopyWrite(r, d)
    \/ CopyShutdown(r, d)

Next ==
    \/ MainStep
    \/ \E r \in Requests :
        \/ Dispatch(r)
        \/ SendResponse(r)
        \/ ConnFail(r)
        \/ TaskStep(r)
        \/ \E d \in Dirs :
            \/ PeerWrite(r, d)
            \/ PeerClose(r, d)
            \/ CopyStep(r, d)
            \/ CopyErr(r, d)

Spec == Init /\ [][Next]_vars

\* The runtime keeps polling a task that can make progress, and every poll
\* of copy_bidirectional drives both directions.
Fairness ==
    \A r \in Requests :
        /\ WF_vars(TaskStep(r))
        /\ \A d \in Dirs : WF_vars(CopyStep(r, d))

\* The start of main in the environment under which it comes to serve on
\* its default port: DATABASE_URL names a reachable database and PORT is not
\* set.
DefaultEnvInit ==
    /\ Init
    /\ database_url = "reachable"
    /\ env_port = None

\* The served process under fair scheduling of its tasks.
FairSpec == DefaultEnvInit /\ [][Next]_vars /\ Fairness

\* ================================================================ claims
IsPrefix(s, t) == Len(s) <= Len(t) /\ s = SubSeq(t, 1, Len(s))
Other(d) == IF d = "from_client" THEN "from_server" ELSE "from_client"
IsConnect(r) == req[r].method = "CONNECT"
Success == [status |-> 200, body |-> ""]
BadRequest == [status |-> 400, body |-> "CONNECT must be to a socket address"]
LastLog(r) == log[r][Len(log[r])]

\* C1: every CONNECT request whose authority is absent or is not a host
\* with a numeric port is answered 400 with the plain-text reason, never
\* with the success response.
C1_MalformedGets400 ==
    \A r \in Requests :
        (IsConnect(r) /\ ~IsSocketAddr(req[r].authority)) => resp[r] = BadRequest

\* C2: for a CONNECT request whose authority is absent or is not a host with
\* a numeric port no task is spawned, and neither the upgrade nor the dial is
\* ever attempted.
C2_MalformedNoBackgroundWork ==
    \A r \in Requests :
        (IsConnect(r) /\ ~IsSocketAddr(req[r].authority)) =>
            /\ spawns[r] = 0
            /\ upgrades[r] = 0
            /\ dials[r] = 0

\* C3: a CONNECT request with a well-formed host:port authority is answered
\* with the success status and an empty body, and no byte is relayed in
\* either direction before that response is on the wire.
C3_SuccessBeforeBytes ==
    \A r \in Requests :
        (IsConnect(r) /\ IsSocketAddr(req[r].authority)) =>
            /\ resp[r] = Success
            /\ \A d \in Dirs :
                (buf[r][d] # <<>> \/ sink[r][d] # <<>> \/ amt[r][d] > 0)
                    => wire[r] = "sent"

C3_Witness ==
    \E r \in Requests :
        /\ IsConnect(r) /\ IsSocketAddr(req[r].authority)
        /\ wire[r] = "sent"
        /\ sink[r]["from_client"] # <<>>
        /\ sink[r]["from_server"] # <<>>

\* C4: the destination is dialed only after the upgrade has completed, and
\* the upgrade completes only after the success response was sent.
C4_DialAfterResponse ==
    \A r \in Requests :
        /\ dials[r] > 0 => (upgraded[r] # "none" /\ wire[r] = "sent")
        /\ upgraded[r] # "none" => (wire[r] = "sent" /\ resp[r] = Success)

C4_Witness ==
    \E r \in Requests : dials[r] > 0 /\ server[r] = "open"

\* C5: in both directions what has been delivered is at every moment a
\* prefix of what the peer wrote (nothing dropped, duplicated, reordered or
\* altered), and when the tunnel returns Ok everything written was delivered.
C5_RelayPreservesBytes ==
    \A r \in Requests : \A d \in Dirs :
        /\ IsPrefix(sink[r][d], written[r][d])
        /\ result[r] = "ok" => sink[r][d] = written[r][d]

C5_Witness ==
    \E r \in Requests :
        /\ result[r] = "ok"
        /\ sink[r]["from_client"] # <<>>
        /\ sink[r]["from_server"] # <<>>

\* The sink of direction d sees end-of-input only after every byte its peer
\* wrote before closing has been delivered.
EofAfterFlush ==
    \A r \in Requests : \A d \in Dirs :
        sinkEof[r][d] => (peerClosed[r][d] /\ sink[r][d] = written[r][d])

\* Side d closed after writing: unless an I/O error ends the tunnel, the other
\* side gets all of d's bytes and then end-of-input.
HalfCloseDelivered(r, d) ==
    (tpc[r] = "relaying" /\ peerClosed[r][d])
        ~> ((sinkEof[r][d] /\ sink[r][d] = written[r][d]) \/ result[r] = "io_err")

\* Direction d is done and the other side is still open: unless an I/O error
\* ends the tunnel, what the other side has written is still delivered.
OtherSideStillRelayed(r, d) ==
    (tpc[r] = "relaying" /\ dstate[r][d] = "done" /\ ~peerClosed[r][Other(d)])
        ~> (sink[r][Other(d)] = written[r][Other(d)] \/ result[r] = "io_err")

\* C6: half-close propagation. When one side reaches end-of-stream after
\* writing N bytes, the other side eventually receives all N bytes and then
\* end-of-input (the shutdown follows the flush), and the tunnel goes on
\* relaying the opposite direction; an I/O error is the only way out. Both
\* directions alike.
C6_HalfClosePropagates ==
    /\ []EofAfterFlush
    /\ \A r \in Requests : \A d \in Dirs :
        HalfCloseDelivered(r, d) /\ OtherSideStillRelayed(r, d)

C6_Witness ==
    \E r \in Requests :
        /\ tpc[r] = "relaying"
        /\ sinkEof[r]["from_client"]
        /\ Len(sink[r]["from_client"]) = 1
        /\ ~peerClosed[r]["from_server"]
        /\ sink[r]["from_server"] # <<>>

\* What tunnel r has relayed so far.
Relayed(r) == <<sink[r], buf[r], amt[r], sinkEof[r]>>

\* A tunnel that returned Ok has both directions at end-of-stream; one that
\* met an I/O error has ended with the error status and dropped both streams.
TunnelEndStates ==
    \A r \in Requests :
        /\ result[r] = "ok" =>
            \A d \in Dirs : dstate[r][d] = "done" /\ peerClosed[r][d] /\ sinkEof[r][d]
        /\ result[r] = "io_err" =>
            /\ tpc[r] = "done"
            /\ upgraded[r] = "closed" /\ server[r] = "closed"
            /\ \E d \in Dirs : dstate[r][d] # "done"

\* After the I/O error nothing more is relayed in either direction.
NothingRelayedAfterError ==
    \A r \in Requests :
        result[r] = "io_err" => (Relayed(r)' = Relayed(r) /\ result'[r] = "io_err")

\* C7: the tunnel ends with success only when both directions have reached
\* end-of-stream; an I/O error in either direction ends the tunnel with an
\* error status, stops both directions, and no byte is relayed afterwards.
C7_BothEofOrError ==
    /\ []TunnelEndStates
    /\ [][NothingRelayedAfterError]_vars

C7_Witness ==
    \E r \in Requests : \E d \in Dirs :
        /\ result[r] = "io_err"
        /\ sink[r][d] # <<>>
        /\ inflight[r][Other(d)] # <<>>

HasCounts(r) == \E i \in 1..Len(log[r]) : log[r][i].counts # <<>>

C9_DialFailureIsLocal ==
    \A r \in Requests :
        result[r] = "dial_err" =>
            /\ tpc[r] = "done"
            /\ LastLog(r) = LogEntry("warn", "server io error", <<>>)
            /\ upgraded[r] = "closed"
            /\ server[r] = "none"
            /\ \A d \in Dirs : sink[r][d] = <<>> /\ buf[r][d] = <<>> /\ amt[r][d] = 0
            /\ listener = "serving"
            /\ \A o \in Requests \ {r} :
                /\ (req[o] = NoReq /\ \A p \in Requests : p < o => req[p] # NoReq)
                        => ENABLED Dispatch(o)
                /\ wire[o] = "pending" => ENABLED SendResponse(o)
                /\ (req[o].method = "GET" /\ req[o].path = "/ping")
                        => resp[o] = [status |-> 200, body |-> "Pong"]
                /\ tpc[o] = "dial" => ENABLED DialErr(o)
                /\ (tpc[o] = "relaying" /\ buf[o]["from_client"] # <<>>)
                        => ENABLED CopyWrite(o, "from_client")

C9_Witness ==
    /\ result[1] = "dial_err"
    /\ IsSocketAddr(host_addr[1])
    /\ req[2].method = "GET" /\ req[2].path = "/ping"
    /\ resp[2] = [status |-> 200, body |-> "Pong"]
    /\ wire[2] = "sent"

\* Every byte delivered in tunnel r was written by a peer of tunnel r, on
\* the opposite side.
NoCrossTalk ==
    \A r \in Requests : \A d \in Dirs :
        \A i \in 1..Len(sink[r][d]) : sink[r][d][i] = Byte(r, d, i)

\* The part of the state that belongs to tunnel r.
TunnelState(r) ==
    <<tpc[r], host_addr[r], upgraded[r], server[r], result[r], written[r],
      inflight[r], buf[r], sink[r], peerClosed[r], sinkEof[r], dstate[r], amt[r]>>

\* No step changes the state of two tunnels.
OneTunnelPerStep ==
    \A r, o \in Requests :
        (r # o /\ TunnelState(r)' # TunnelState(r)) => TunnelState(o)' = TunnelState(o)

\* C10: concurrent tunnels are independent: whatever the interleaving, a
\* tunnel delivers only bytes of its own peers, and no step of one tunnel
\* touches the state of another.
C10_TunnelsIndependent ==
    /\ []NoCrossTalk
    /\ [][OneTunnelPerStep]_vars

C10_Witness ==
    /\ tpc[1] = "relaying" /\ tpc[2] = "relaying"
    /\ sink[1]["from_client"] # <<>>
    /\ sink[2]["from_server"] # <<>>

\* Exchange r started no background work and opened no stream.
NoBackgroundWork(r) ==
    /\ tpc[r] = "none"
    /\ spawns[r] = 0 /\ upgrades[r] = 0 /\ dials[r] = 0
    /\ upgraded[r] = "none" /\ server[r] = "none"

\* C11: the dispatcher routes by method only: a request is handled by proxy
\* (which traces it) exactly when its method is CONNECT; any other request
\* gets the router's response for that same request, verbatim, and causes
\* no task, no upgrade and no dial.
C11_RoutesByMethod ==
    \A r \in Requests :
        req[r] # NoReq =>
            IF req[r].method = "CONNECT"
            THEN /\ log[r] # <<>>
                 /\ log[r][1] = LogEntry("trace", "req", <<>>)
                 /\ resp[r] \in {Success, BadRequest}
                 /\ resp[r] = Success => spawns[r] = 1
            ELSE /\ log[r] = <<>>
                 /\ resp[r] = RouterCall(req[r])
                 /\ NoBackgroundWork(r)

C11_Witness ==
    /\ req[1].method = "POST" /\ resp[1].status = 405 /\ wire[1] = "sent"
    /\ req[2].method = "CONNECT" /\ tpc[2] = "relaying"

\* The Location header of a response, "" when it has none.
LocationOf(p) == IF "location" \in DOMAIN p THEN p.location ELSE ""

\* C12: GET / answers 308 Permanent Redirect with a Location header set to
\* the configured destination URL.
C12_RootRedirects ==
    \A r \in Requests :
        (req[r].method = "GET" /\ req[r].path = "/") =>
            /\ resp[r].status = RedirectBuilt.status
            /\ LocationOf(resp[r]) = RedirectBuilt.location

\* What makes the configuration invalid: no reachable route store, or a PORT
\* that is set and is no 16-bit unsigned integer.
PortPresentInvalid == env_port # None /\ ~ParsesAsU16(env_port)
StartupConfigError == database_url # "reachable" \/ PortPresentInvalid

\* C13: with an invalid configuration the process never binds the listener
\* and never takes a request; with PORT not set the port is 3000.
C13_StartupErrorsAreFatal ==
    /\ StartupConfigError =>
        /\ listener = "unbound"
        /\ \A r \in Requests : req[r] = NoReq
    /\ (listener = "serving" /\ env_port = None) => port = 3000

\* The streams of each outcome: none after an upgrade error, the upgraded
\* one closed after a dial error, both closed after the relay; and a stream
\* is open only while its task is in tunnel.
StreamsFollowTask ==
    \A r \in Requests :
        /\ tpc[r] = "done" => (upgraded[r] # "open" /\ server[r] # "open")
        /\ result[r] = "upgrade_err" => (upgraded[r] = "none" /\ server[r] = "none")
        /\ result[r] = "dial_err" => (upgraded[r] = "closed" /\ server[r] = "none")
        /\ result[r] \in {"io_err", "ok"} =>
                (upgraded[r] = "closed" /\ server[r] = "closed")
        /\ upgraded[r] = "open" => tpc[r] \in {"dial", "relaying"}
        /\ server[r] = "open" => tpc[r] = "relaying"

\* A stream goes none -> open -> closed and never back.
OpenedAndClosedOnce(x) ==
    \A r \in Requests :
        /\ x[r] = "closed" => x'[r] = "closed"
        /\ (x'[r] = "closed" /\ x[r] # "closed") => x[r] = "open"
        /\ (x'[r] = "open" /\ x[r] # "open") => x[r] = "none"
        /\ x[r] = "open" => x'[r] \in {"open", "closed"}

\* A stream changes only in a step of its own task, which changes no other.
StreamsOwnedByOneTask ==
    \A r \in Requests :
        (upgraded'[r] # upgraded[r] \/ server'[r] # server[r]) =>
            /\ tpc'[r] # tpc[r]
            /\ \A o \in Requests \ {r} :
                tpc'[o] = tpc[o] /\ upgraded'[o] = upgraded[o] /\ server'[o] = server[o]

\* C14: whatever the outcome of a task (upgrade error, dial error, relay
\* I/O error, normal completion), each stream it opened is closed exactly
\* once, none stays open after the task has ended, and no stream is held by
\* two tasks.
C14_StreamsClosedOnce ==
    /\ []StreamsFollowTask
    /\ [][OpenedAndClosedOnce(upgraded) /\ OpenedAndClosedOnce(server)
            /\ StreamsOwnedByOneTask]_vars

C14_Witness ==
    /\ result[1] = "dial_err" /\ upgraded[1] = "closed"
    /\ result[2] = "ok" /\ upgraded[2] = "closed" /\ server[2] = "closed"

\* The task of exchange r has logged the upgrade error.
UpgradeFailed(r) ==
    \E i \in 1..Len(log[r]) : log[r][i] = LogEntry("warn", "upgrade error", <<>>)

\* C15: when the upgrade fails the task logs the warning and ends: it never
\* dials, opens no stream, relays nothing, and no response is sent on that
\* exchange afterwards.
C15_UpgradeFailureEndsTask ==
    \A r \in Requests :
        UpgradeFailed(r) =>
            /\ tpc[r] = "done"
            /\ result[r] = "upgrade_err"
            /\ LastLog(r) = LogEntry("warn", "upgrade error", <<>>)
            /\ dials[r] = 0
            /\ upgraded[r] = "none" /\ server[r] = "none"
            /\ \A d \in Dirs : sink[r][d] = <<>> /\ buf[r][d] = <<>>
            /\ wire[r] = "failed"
            /\ resp[r] = Success

C15_Witness ==
    /\ UpgradeFailed(1)
    /\ tpc[2] = "relaying"

\* C16: establishment is attempted once: a task is spawned exactly when
\* proxy returns the success response, one task per such request, and in
\* it the upgrade is invoked at most once and the dial at most once.
C16_EstablishedOnce ==
    \A r \in Requests :
        /\ spawns[r] = IF req[r].method = "CONNECT" /\ resp[r] = Success THEN 1 ELSE 0
        /\ upgrades[r] <= spawns[r]
        /\ dials[r] <= upgrades[r]
        /\ tpc[r] \in {"dial", "relaying"} => upgrades[r] = 1
        /\ result[r] \in {"dial_err", "io_err", "ok"} => dials[r] = 1

C16_Witness ==
    \E r \in Requests :
        /\ result[r] = "dial_err"
        /\ IsSocketAddr(host_addr[r])
        /\ spawns[r] = 1 /\ upgrades[r] = 1 /\ dials[r] = 1

\* C17: proxy returns the success response without waiting for the task:
\* the response is there in every state of the task, it can be written while
\* the task has not started or is awaiting the upgrade, and an exchange whose
\* task awaits the upgrade is never stuck.
C17_ResponseNeverWaits ==
    \A r \in Requests :
        (req[r].method = "CONNECT" /\ req[r].authority # None) =>
            /\ resp[r] = Success
            /\ wire[r] = "pending" => ENABLED SendResponse(r)
            /\ tpc[r] = "awaiting_upgrade" =>
                    (ENABLED SendResponse(r) \/ ENABLED TaskStep(r))

C17_Witness ==
    \E r \in Requests :
        /\ tpc[r] = "spawned"
        /\ resp[r] = Success
        /\ wire[r] = "sent"

\* Both peers of tunnel r have closed their write side.
BothSidesClosed(r) == \A d \in Dirs : peerClosed[r][d]

\* A relaying tunnel ends only by returning Ok with both directions at
\* end-of-stream, or by an I/O error.
EndsOnlyByEofOrError ==
    \A r \in Requests :
        (tpc[r] = "relaying" /\ tpc'[r] # "relaying") =>
            /\ tpc'[r] = "done"
            /\ \/ result'[r] = "io_err"
               \/ /\ result'[r] = "ok"
                  /\ BothSidesClosed(r)
                  /\ \A d \in Dirs : dstate[r][d] = "done"

\* Once both sides are at end-of-stream the task ends.
EndsAfterBothEof(r) ==
    (tpc[r] = "relaying" /\ BothSidesClosed(r)) ~> tpc[r] = "done"

\* C18: a started tunnel ends exactly by natural completion or I/O error:
\* with both directions scheduled fairly it ends once both sides have
\* reached end-of-stream (an I/O error ends it at once), and nothing else,
\* no deadline and no cancellation, ever ends it.
C18_EndsByEofOrError ==
    /\ [][EndsOnlyByEofOrError]_vars
    /\ \A r \in Requests : EndsAfterBothEof(r)

C18_Witness ==
    /\ result[1] = "ok"
    /\ sink[1]["from_client"] # <<>>
    /\ tpc[2] = "relaying" /\ ~BothSidesClosed(2)

\* Every request the service was called with has its response, and the
\* server is still serving.
EveryRequestAnswered ==
    \A r \in Requests :
        req[r] # NoReq =>
            /\ resp[r] # NoResp
            /\ resp[r].status \in 100..599
            /\ listener = "serving"

\* C19: the dispatcher is infallible: every inbound request, CONNECT or not,
\* well-formed or not, yields an HTTP response and never an error, and no
\* request stops the listener.
C19_DispatcherInfallible ==
    /\ []EveryRequestAnswered
    /\ [][listener = "serving" => listener' = "serving"]_vars

C19_Witness ==
    /\ req[1].method = "CONNECT" /\ req[1].authority = None
    /\ resp[1] = BadRequest
    /\ req[2].method = "GET" /\ req[2].path = "/x"
    /\ resp[2].status = 404
    /\ wire[1] = "sent" /\ wire[2] = "sent"

\* C20: by the time the listener serves, exactly one put, of the route "/",
\* has been performed on the route store; no get is ever performed.
C20_RouteRegisteredAtStartup ==
    /\ listener = "serving" => store = << [op |-> "put", route |-> "/"] >>
    /\ \A i \in 1..Len(store) : store[i].op # "get"

====
